---- MODULE Spec2Model ----
(***************************************************************************)
(* A state-machine model of the menu item / submenu logic                  *)
(* (widget/menu_item.go, first part) and of the button widget (second      *)
(* part of the same file).                                                 *)
(*                                                                         *)
(* Three specifications share the variables:                               *)
(*   Spec      the menu tree: hover, tap, resize, lazy submenu creation    *)
(*   SpecPos   updateChildPosition applied to bounded geometry inputs      *)
(*   SpecBtn   the button: hover, tap, tap animation, renderer colours     *)
(***************************************************************************)
EXTENDS Integers, Sequences, FiniteSets, TLC

(***************************************************************************)
(* The menu tree under test (the fyne.MenuItem data the widgets display).  *)
(*   R: a (submenu A), b (submenu B, action), c (plain)                    *)
(*   A: a1 (submenu AA, action)                                            *)
(*   AA: aa1 (action)                                                      *)
(***************************************************************************)
NoMenu == "nil"

Root == "R"

Menus == {"R", "A", "B", "AA"}

Items == {"a", "b", "c", "a1", "aa1"}

\* menuItem.Parent
Parent(i) ==
    CASE i \in {"a", "b", "c"} -> "R"
      [] i = "a1" -> "A"
      [] i = "aa1" -> "AA"

\* menuItem.Item.ChildMenu (NoMenu when nil)
ChildMenu(i) ==
    CASE i = "a" -> "A"
      [] i = "b" -> "B"
      [] i = "a1" -> "AA"
      [] OTHER -> NoMenu

\* menuItem.Item.Action # nil
HasAction(i) == i \in {"b", "a1", "aa1"}

\* theme.Padding()
Padding == 2

ZeroSize == [Width |-> 0, Height |-> 0]

ZeroPos == [X |-> 0, Y |-> 0]

\* fyne.Size.IsZero
IsZero(sz) == sz.Width = 0 /\ sz.Height = 0

\* Menu.MinSize() of a submenu: what its rows need (never zero)
MenuMinSize(m) ==
    CASE m = "A" -> [Width |-> 3, Height |-> 2]
      [] m = "B" -> [Width |-> 5, Height |-> 7]
      [] m = "AA" -> [Width |-> 4, Height |-> 3]
      [] OTHER -> [Width |-> 3, Height |-> 6]

\* the sizes a layout pass hands to menuItem.Resize
ItemSizes == {[Width |-> 3, Height |-> 2]}

\* the items the menu specification resizes: those that own a submenu (the
\* size of an item without one is read by no handler)
ResizedItems == {i \in Items : ChildMenu(i) # NoMenu}

NoCanvas == [Width |-> -1, Height |-> -1]

\* the window the menu specification shows the menu in
MenuCanvas == [Width |-> 8, Height |-> 8]

\* where the menu specification lays the items out in that window
MenuAbsPos ==
    [i \in Items |->
        CASE i = "a" -> [X |-> 0, Y |-> 0]
          [] i = "b" -> [X |-> 0, Y |-> 2]
          [] i = "c" -> [X |-> 0, Y |-> 4]
          [] i = "a1" -> [X |-> 3, Y |-> 0]
          [] i = "aa1" -> [X |-> 4, Y |-> 0]]

VARIABLES
    child,        \* menuItem.child per item (NoMenu = nil)
    hovered,      \* menuItem.hovered per item
    itemSize,     \* menuItem.Size() per item
    activeChild,  \* Menu.activeChild per menu
    visible,      \* Menu.Visible() per menu
    menuSize,     \* Menu.Size() per menu
    menuPos,      \* Menu.Position() per menu (relative to the owning item)
    dismissAction,\* Menu.DismissAction per menu: the menu whose Dismiss it is
    mobile,       \* fyne.CurrentDevice().IsMobile()
    canvas,       \* Driver.CanvasForObject(item).Size(), NoCanvas when nil
    absPos,       \* Driver.AbsolutePositionForObject(item) per item
    posCalls,     \* how often updateChildPosition was called directly (SpecPos)
    button,       \* the Button widget's fields
    renderer,     \* the button's renderer, NoRenderer before CreateRenderer
    btnCalls,     \* the last button handler, if it was a tap: the tap and, in
                  \* order, what it did to the animation and the OnTapped call
    animsCreated, \* how many animations newButtonTapAnimation has made
    menuBar,      \* the button is a menuBarAction's ToolbarObject
    btnGeom,      \* the button's Position() and Size()
    popup,        \* where the last pop-up menu was moved to, NoPopUp if none
    theme,        \* theme.TextSize(), theme.IconInlineSize(), theme.Padding()
    mir,          \* a menuItemRenderer's fields
    mirCalls,     \* the last renderer call, if it was MinSize: the call and
                  \* whether it computed the size or returned the stored one
    computedUnder,\* the theme under which mir.minSize was computed
    calls         \* the last handler, if it was a tap: the tap and, in order, the
                  \* callbacks and Dismiss calls it made; empty after any other handler

menuVars == <<child, hovered, itemSize, activeChild, visible, menuSize, menuPos,
              dismissAction, mobile, calls>>

driverVars == <<canvas, absPos>>

btnVars == <<button, renderer, btnCalls, animsCreated>>

barVars == <<menuBar, btnGeom, popup>>

cacheVars == <<mir, mirCalls, computedUnder>>

\* everything the menu handlers leave alone
widgetVars == <<btnVars, barVars, theme, cacheVars>>

vars == <<menuVars, driverVars, posCalls, widgetVars>>

(***************************************************************************)
(* The menus as one value, so that a handler's statements compose.         *)
(***************************************************************************)
MenuState ==
    [activeChild |-> activeChild, visible |-> visible, menuSize |-> menuSize,
     menuPos |-> menuPos, calls |-> <<>>]

\* the menu exists: the root, or a submenu some item has created
Exists(m) == m = Root \/ \E i \in Items : child[i] = m

\* the item exists: its menu has been built
ItemExists(i) == Exists(Parent(i))

\* Menu.Hide
HideMenu(s, m) == [s EXCEPT !.visible[m] = FALSE]

\* Menu.Show
ShowMenu(s, m) == [s EXCEPT !.visible[m] = TRUE]

\* Menu.DeactivateChild: hides the active child submenu, if any, and forgets it
DeactivateChild(s, m) ==
    IF s.activeChild[m] = NoMenu
    THEN s
    ELSE [HideMenu(s, s.activeChild[m]) EXCEPT !.activeChild[m] = NoMenu]

RECURSIVE Dismiss(_, _)
\* Menu.Dismiss: closes the active child and performs the DismissAction
Dismiss(s, m) ==
    LET s1 == [s EXCEPT !.calls = Append(@, [call |-> "Dismiss", of |-> m])]
        s2 == DeactivateChild(s1, m)
    IN  IF dismissAction[m] = NoMenu THEN s2 ELSE Dismiss(s2, dismissAction[m])

\* childPosition that looks for room on the left from the item's right edge
childPosition_FlipByRightEdge(itemSz, cnv, itemAbs, childSz) ==
    LET cpX == IF cnv # NoCanvas
                  /\ itemAbs.X + itemSz.Width + childSz.Width > cnv.Width
               THEN IF itemAbs.X + itemSz.Width - childSz.Width >= 0
                    THEN -childSz.Width
                    ELSE cnv.Width - itemAbs.X - childSz.Width
               ELSE itemSz.Width
        cpY == IF cnv # NoCanvas
                  /\ itemAbs.Y + childSz.Height - Padding > cnv.Height
               THEN cnv.Height - itemAbs.Y - childSz.Height
               ELSE -Padding
    IN  [X |-> cpX, Y |-> cpY]

\* childPosition that tests the bottom overflow without the padding offset
childPosition_NoPaddingInTest(itemSz, cnv, itemAbs, childSz) ==
    LET cpX == IF cnv # NoCanvas
                  /\ itemAbs.X + itemSz.Width + childSz.Width > cnv.Width
               THEN IF itemAbs.X - childSz.Width >= 0
                    THEN -childSz.Width
                    ELSE cnv.Width - itemAbs.X - childSz.Width
               ELSE itemSz.Width
        cpY == IF cnv # NoCanvas
                  /\ itemAbs.Y + childSz.Height > cnv.Height
               THEN cnv.Height - itemAbs.Y - childSz.Height
               ELSE -Padding
    IN  [X |-> cpX, Y |-> cpY]

\* the arithmetic without the vertical test: the submenu always hangs from
\* the item's top
childPosition_NoVerticalShift(itemSz, cnv, itemAbs, childSz) ==
    LET cpX == IF cnv # NoCanvas
                  /\ itemAbs.X + itemSz.Width + childSz.Width > cnv.Width
               THEN IF itemAbs.X - childSz.Width >= 0
                    THEN -childSz.Width
                    ELSE cnv.Width - itemAbs.X - childSz.Width
               ELSE itemSz.Width
    IN  [X |-> cpX, Y |-> -Padding]

\* the arithmetic of menuItem.updateChildPosition: the submenu's position for an
\* item of size itemSz at absolute position itemAbs in a canvas of size cnv
childPosition(itemSz, cnv, itemAbs, childSz) ==
    LET cpX == IF cnv # NoCanvas
                  /\ itemAbs.X + itemSz.Width + childSz.Width > cnv.Width
               THEN IF itemAbs.X - childSz.Width >= 0
                    THEN -childSz.Width
                    ELSE cnv.Width - itemAbs.X - childSz.Width
               ELSE itemSz.Width
        cpY == IF cnv # NoCanvas
                  /\ itemAbs.Y + childSz.Height - Padding > cnv.Height
               THEN cnv.Height - itemAbs.Y - childSz.Height
               ELSE -Padding
    IN  [X |-> cpX, Y |-> cpY]

\* updateChildPosition that moves the submenu by the offset, from where it is
updateChildPosition_Relative(s, i, itemSz) ==
    LET cp == childPosition(itemSz, canvas, absPos[i], s.menuSize[child[i]])
    IN  [s EXCEPT !.menuPos[child[i]] = [X |-> @.X + cp.X, Y |-> @.Y + cp.Y]]

\* menuItem.updateChildPosition, for item i of size itemSz
updateChildPosition(s, i, itemSz) ==
    [s EXCEPT !.menuPos[child[i]] =
        childPosition(itemSz, canvas, absPos[i], s.menuSize[child[i]])]

\* activateChild that leaves the parent's active child alone (no
\* i.Parent.DeactivateChild() before activating)
activateChild_KeepsSibling(s, i) ==
    LET c == child[i]
        p == Parent(i)
        s1 == IF c # NoMenu THEN DeactivateChild(s, c) ELSE s
    IN  IF s1.activeChild[p] = c
        THEN s1
        ELSE IF c # NoMenu
             THEN LET s3 == IF IsZero(s1.menuSize[c])
                            THEN updateChildPosition(
                                    [s1 EXCEPT !.menuSize[c] = MenuMinSize(c)],
                                    i, itemSize[i])
                            ELSE s1
                      s4 == [s3 EXCEPT !.activeChild[p] = c]
                  IN  ShowMenu(s4, c)
             ELSE s1

\* activateChild that records the active child but never shows it
activateChild_NoShow(s, i) ==
    LET c == child[i]
        p == Parent(i)
        s1 == IF c # NoMenu THEN DeactivateChild(s, c) ELSE s
    IN  IF s1.activeChild[p] = c
        THEN s1
        ELSE LET s2 == DeactivateChild(s1, p)
             IN  IF c # NoMenu
                 THEN LET s3 == IF IsZero(s2.menuSize[c])
                                THEN updateChildPosition(
                                        [s2 EXCEPT !.menuSize[c] = MenuMinSize(c)],
                                        i, itemSize[i])
                                ELSE s2
                      IN  [s3 EXCEPT !.activeChild[p] = c]
                 ELSE s2

\* activateChild that positions a new submenu before it resizes it
activateChild_PositionBeforeResize(s, i) ==
    LET c == child[i]
        p == Parent(i)
        s1 == IF c # NoMenu THEN DeactivateChild(s, c) ELSE s
    IN  IF s1.activeChild[p] = c
        THEN s1
        ELSE LET s2 == DeactivateChild(s1, p)
             IN  IF c # NoMenu
                 THEN LET s3 == IF IsZero(s2.menuSize[c])
                                THEN [updateChildPosition(s2, i, itemSize[i])
                                         EXCEPT !.menuSize[c] = MenuMinSize(c)]
                                ELSE s2
                          s4 == [s3 EXCEPT !.activeChild[p] = c]
                      IN  ShowMenu(s4, c)
                 ELSE s2

\* menuItem.activateChild
activateChild(s, i) ==
    LET c == child[i]
        p == Parent(i)
        s1 == IF c # NoMenu THEN DeactivateChild(s, c) ELSE s
    IN  IF s1.activeChild[p] = c
        THEN s1
        ELSE LET s2 == DeactivateChild(s1, p)
             IN  IF c # NoMenu
                 THEN LET s3 == IF IsZero(s2.menuSize[c])
                                THEN updateChildPosition(
                                        [s2 EXCEPT !.menuSize[c] = MenuMinSize(c)],
                                        i, itemSize[i])
                                ELSE s2
                          s4 == [s3 EXCEPT !.activeChild[p] = c]
                      IN  ShowMenu(s4, c)
                 ELSE s2

\* writes a handler's resulting menus back to the variables
Commit(s) ==
    /\ activeChild' = s.activeChild
    /\ visible' = s.visible
    /\ menuSize' = s.menuSize
    /\ menuPos' = s.menuPos
    /\ calls' = s.calls

MenuInit ==
    /\ child = [i \in Items |-> NoMenu]
    /\ hovered = [i \in Items |-> FALSE]
    /\ itemSize = [i \in Items |-> ZeroSize]
    /\ activeChild = [m \in Menus |-> NoMenu]
    /\ visible = [m \in Menus |-> m = Root]
    /\ menuSize = [m \in Menus |-> ZeroSize]
    /\ menuPos = [m \in Menus |-> ZeroPos]
    /\ dismissAction = [m \in Menus |-> NoMenu]
    /\ mobile \in BOOLEAN
    /\ calls = <<>>

\* NewMenu: a new menu widget is visible, of zero size, with no active child
NewMenu(s, m) ==
    [s EXCEPT !.visible[m] = TRUE, !.menuSize[m] = ZeroSize,
              !.menuPos[m] = ZeroPos, !.activeChild[m] = NoMenu]

\* CreateRenderer that leaves the submenu's DismissAction unset
CreateRenderer_NoDismissAction(i) ==
    /\ ItemExists(i)
    /\ IF ChildMenu(i) # NoMenu /\ child[i] = NoMenu
       THEN LET c == ChildMenu(i)
            IN  /\ Commit(HideMenu(NewMenu(MenuState, c), c))
                /\ child' = [child EXCEPT ![i] = c]
       ELSE /\ Commit(MenuState)
            /\ UNCHANGED child
    /\ UNCHANGED <<dismissAction, hovered, itemSize, mobile, driverVars, posCalls, widgetVars>>

\* menuItem.CreateRenderer: the first one builds the hidden submenu
CreateRenderer(i) ==
    /\ ItemExists(i)
    /\ IF ChildMenu(i) # NoMenu /\ child[i] = NoMenu
       THEN LET c == ChildMenu(i)
            IN  /\ Commit(HideMenu(NewMenu(MenuState, c), c))
                /\ dismissAction' = [dismissAction EXCEPT ![c] = Parent(i)]
                /\ child' = [child EXCEPT ![i] = c]
       ELSE /\ Commit(MenuState)
            /\ UNCHANGED <<child, dismissAction>>
    /\ UNCHANGED <<hovered, itemSize, mobile, driverVars, posCalls, widgetVars>>

\* menuItem.MouseIn
MouseIn(i) ==
    /\ ItemExists(i)
    /\ hovered' = [hovered EXCEPT ![i] = TRUE]
    /\ Commit(activateChild(MenuState, i))
    /\ UNCHANGED <<child, itemSize, dismissAction, mobile, driverVars, posCalls, widgetVars>>

\* MouseOut that also closes the submenus of the item's menu
MouseOut_ClosesChild(i) ==
    /\ ItemExists(i)
    /\ hovered' = [hovered EXCEPT ![i] = FALSE]
    /\ Commit(DeactivateChild(MenuState, Parent(i)))
    /\ UNCHANGED <<child, itemSize, dismissAction, mobile, driverVars, posCalls, widgetVars>>

\* menuItem.MouseOut
MouseOut(i) ==
    /\ ItemExists(i)
    /\ hovered' = [hovered EXCEPT ![i] = FALSE]
    /\ Commit(MenuState)
    /\ UNCHANGED <<child, itemSize, dismissAction, mobile, driverVars, posCalls, widgetVars>>

\* menuItem.Resize
Resize(i, size) ==
    /\ ItemExists(i)
    /\ itemSize' = [itemSize EXCEPT ![i] = size]
    /\ Commit(IF child[i] # NoMenu
              THEN updateChildPosition(MenuState, i, size)
              ELSE MenuState)
    /\ UNCHANGED <<child, hovered, dismissAction, mobile, driverVars, posCalls, widgetVars>>

\* Tapped without the touch-device branch: no action, nothing happens
Tapped_IgnoresMobile(i) ==
    /\ ItemExists(i)
    /\ LET s0 == [MenuState EXCEPT !.calls = <<[call |-> "Tapped", of |-> i]>>]
       IN  IF ~HasAction(i)
           THEN Commit(s0)
           ELSE Commit(Dismiss([s0 EXCEPT
                                  !.calls = Append(@, [call |-> "Action", of |-> i])],
                               Parent(i)))
    /\ UNCHANGED <<child, hovered, itemSize, dismissAction, mobile, driverVars, posCalls, widgetVars>>

\* Tapped that activates the submenu on every device
Tapped_AlwaysActivates(i) ==
    /\ ItemExists(i)
    /\ LET s0 == [MenuState EXCEPT !.calls = <<[call |-> "Tapped", of |-> i]>>]
       IN  IF ~HasAction(i)
           THEN Commit(activateChild(s0, i))
           ELSE Commit(Dismiss([s0 EXCEPT
                                  !.calls = Append(@, [call |-> "Action", of |-> i])],
                               Parent(i)))
    /\ UNCHANGED <<child, hovered, itemSize, dismissAction, mobile, driverVars, posCalls, widgetVars>>

\* menuItem.Tapped
Tapped(i) ==
    /\ ItemExists(i)
    /\ LET s0 == [MenuState EXCEPT !.calls = <<[call |-> "Tapped", of |-> i]>>]
       IN  IF ~HasAction(i)
           THEN Commit(IF mobile THEN activateChild(s0, i) ELSE s0)
           ELSE Commit(Dismiss([s0 EXCEPT
                                  !.calls = Append(@, [call |-> "Action", of |-> i])],
                               Parent(i)))
    /\ UNCHANGED <<child, hovered, itemSize, dismissAction, mobile, driverVars, posCalls, widgetVars>>

(***************************************************************************)
(* The button widget.                                                      *)
(***************************************************************************)
\* the renderer variable while the button has no renderer
NoRenderer ==
    [icon |-> "nil", labelText |-> 0, labelShown |-> FALSE,
     background |-> "nil", labelColor |-> "nil"]

\* ButtonImportance
MediumImportance == "Medium"

HighImportance == "High"

LowImportance == "Low"

\* longest button text, in characters
MaxText == 2

\* NewButton / NewButtonWithIcon: Text, Icon and OnTapped as given (Icon and
\* OnTapped as "is not nil"), everything else the zero value
NewButton(text, icon, tapped, importance) ==
    [Text |-> text, Icon |-> icon, OnTapped |-> tapped,
     Importance |-> importance, disabled |-> FALSE, hovered |-> FALSE,
     tapAnim |-> "nil", tapBG |-> FALSE]

\* DisableableWidget.Disabled
Disabled(b) == b.disabled

\* buttonColor with the hover rule ahead of the importance rule
buttonColor_HoverFirst(b) ==
    IF Disabled(b) THEN "DisabledButtonColor"
    ELSE IF b.hovered THEN "HoverColor"
    ELSE IF b.Importance = HighImportance THEN "PrimaryColor"
    ELSE "ButtonColor"

\* buttonRenderer.buttonColor
buttonColor(b) ==
    IF Disabled(b) THEN "DisabledButtonColor"
    ELSE IF b.Importance = HighImportance THEN "PrimaryColor"
    ELSE IF b.hovered THEN "HoverColor"
    ELSE "ButtonColor"

\* buttonRenderer.applyTheme: background and label colour
applyTheme(b, r) ==
    [r EXCEPT !.background = buttonColor(b),
              !.labelColor = IF b.disabled THEN "DisabledColor"
                             ELSE IF b.Importance = HighImportance
                                  THEN "BackgroundColor"
                                  ELSE "ForegroundColor"]

\* buttonRenderer.updateIconAndText (the button is visible)
updateIconAndText(b, r) ==
    LET r1 == IF b.Icon THEN [r EXCEPT !.icon = "shown"]
              ELSE IF r.icon # "nil" THEN [r EXCEPT !.icon = "hidden"]
              ELSE r
    IN  [r1 EXCEPT !.labelShown = (b.Text # 0)]

\* buttonRenderer.Refresh
buttonRenderer_Refresh(b, r) ==
    applyTheme(b, updateIconAndText(b, [r EXCEPT !.labelText = b.Text]))

\* Button.Refresh: refreshes the renderer the button has
Button_Refresh(b, r) ==
    IF r = NoRenderer THEN r ELSE buttonRenderer_Refresh(b, r)

Max(a, b) == IF a >= b THEN a ELSE b

\* canvas.Text.MinSize for a text of len characters at the text size: as wide
\* as its characters, one line high also when it is empty
TextMinSize(len, textSize) == [Width |-> len * textSize, Height |-> textSize]

\* buttonRenderer.padding with more room around an icon than around a text
padding_WideWithoutText(b, th) ==
    IF b.Importance = LowImportance
    THEN [Width |-> th.Padding * 2, Height |-> th.Padding * 2]
    ELSE IF b.Text = 0
         THEN [Width |-> th.Padding * 8, Height |-> th.Padding * 4]
         ELSE [Width |-> th.Padding * 6, Height |-> th.Padding * 4]

\* buttonRenderer.padding
padding(b, th) ==
    IF b.Importance = LowImportance
    THEN [Width |-> th.Padding * 2, Height |-> th.Padding * 2]
    ELSE IF b.Text = 0
         THEN [Width |-> th.Padding * 4, Height |-> th.Padding * 4]
         ELSE [Width |-> th.Padding * 6, Height |-> th.Padding * 4]

\* hasIcon of buttonRenderer.MinSize and Layout: r.icon != nil
HasIcon(r) == r.icon # "nil"

\* buttonRenderer.MinSize that leaves the icon out of the width
buttonRenderer_MinSize_NoIconWidth(b, r, th) ==
    LET labelSize == TextMinSize(r.labelText, th.TextSize)
        width == IF r.labelText # 0 THEN labelSize.Width ELSE 0
        pad == padding(b, th)
    IN  [Width |-> width + pad.Width,
         Height |-> Max(labelSize.Height, th.IconInlineSize) + pad.Height]

\* buttonRenderer.MinSize (the label's text size is the theme's: applyTheme
\* sets it at every refresh)
buttonRenderer_MinSize(b, r, th) ==
    LET hasIcon == HasIcon(r)
        hasLabel == r.labelText # 0
        iconSize == [Width |-> th.IconInlineSize, Height |-> th.IconInlineSize]
        labelSize == TextMinSize(r.labelText, th.TextSize)
        w1 == IF hasLabel THEN labelSize.Width ELSE 0
        w2 == IF hasIcon
              THEN (IF hasLabel THEN w1 + th.Padding ELSE w1) + iconSize.Width
              ELSE w1
        pad == padding(b, th)
    IN  [Width |-> w2 + pad.Width,
         Height |-> Max(labelSize.Height, iconSize.Height) + pad.Height]

\* Button.tapAnimation that starts the animation it has without stopping it
tapAnimation_NoStop(bt) ==
    IF ~bt.b.tapBG
    THEN bt
    ELSE LET bt1 == IF bt.b.tapAnim = "nil"
                    THEN [bt EXCEPT !.trace = Append(@, "NewAnimation")]
                    ELSE bt
         IN  [b |-> [bt1.b EXCEPT !.tapAnim = "running"],
              trace |-> Append(bt1.trace, "Start")]

\* Button.tapAnimation, on the button and the trace of the tap
tapAnimation(bt) ==
    IF ~bt.b.tapBG
    THEN bt
    ELSE LET bt1 == IF bt.b.tapAnim = "nil"
                    THEN [bt EXCEPT !.trace = Append(@, "NewAnimation")]
                    ELSE [bt EXCEPT !.trace = Append(@, "Stop")]
         IN  [b |-> [bt1.b EXCEPT !.tapAnim = "running"],
              trace |-> Append(bt1.trace, "Start")]

\* how many animations a tap with this trace made
Created(trace) == Cardinality({n \in DOMAIN trace : trace[n] = "NewAnimation"})

\* the popup variable while no pop-up menu has been opened
NoPopUp == [X |-> -1, Y |-> -1]

\* showMenu: the position of the pop-up menu it makes and moves
showMenu(pos) == pos

\* the OnTapped closure, had ToolbarObject computed the position when it made
\* the button (at the zero position, with the zero size)
ToolbarObject_OnTapped_AtBuildTime(g) ==
    showMenu([X |-> ZeroPos.X, Y |-> ZeroPos.Y + ZeroSize.Height])

\* the OnTapped closure of menuBarAction.ToolbarObject, on the button's
\* geometry: the position of the pop-up menu it opens
ToolbarObject_OnTapped(g) ==
    showMenu([X |-> g.Position.X, Y |-> g.Position.Y + g.Size.Height])

\* the call of b.OnTapped: the closure of ToolbarObject when the button is a
\* menu bar's, a callback that opens no pop-up menu otherwise
OnTapped(g, pop) == IF menuBar THEN ToolbarObject_OnTapped(g) ELSE pop

\* a button outside a menu bar, not laid out
BarIdle ==
    /\ menuBar = FALSE
    /\ btnGeom = [Position |-> ZeroPos, Size |-> ZeroSize]
    /\ popup = NoPopUp

\* the theme while a specification does not vary it
DefaultTheme == [TextSize |-> 1, IconInlineSize |-> 2, Padding |-> Padding]

\* the mir variable while a specification is not about a menuItemRenderer
NoItemRenderer ==
    [hasIcon |-> FALSE, textSize |-> 0, iconWidth |-> 0, lastThemePadding |-> 0,
     minSize |-> ZeroSize]

CacheIdle ==
    /\ mir = NoItemRenderer
    /\ mirCalls = <<>>
    /\ computedUnder = DefaultTheme

BtnInit ==
    /\ \E importance \in {MediumImportance, HighImportance, LowImportance},
          tapped \in BOOLEAN :
          button = NewButton(1, FALSE, tapped, importance)
    /\ renderer = NoRenderer
    /\ btnCalls = <<>>
    /\ animsCreated = 0

\* Button.CreateRenderer (the first one)
Button_CreateRenderer ==
    /\ renderer = NoRenderer
    /\ LET b == [button EXCEPT !.tapBG = TRUE]
           r == [icon |-> "nil", labelText |-> b.Text, labelShown |-> TRUE,
                 background |-> "ButtonColor", labelColor |-> "ForegroundColor"]
       IN  /\ button' = b
           /\ renderer' = applyTheme(b, updateIconAndText(b, r))
    /\ btnCalls' = <<>>
    /\ UNCHANGED <<menuVars, driverVars, posCalls, animsCreated, barVars, theme, cacheVars>>

\* Button.MouseIn
Button_MouseIn ==
    /\ button' = [button EXCEPT !.hovered = TRUE]
    /\ renderer' = Button_Refresh(button', renderer)
    /\ btnCalls' = <<>>
    /\ UNCHANGED <<menuVars, driverVars, posCalls, animsCreated, barVars, theme, cacheVars>>

\* Button.MouseOut
Button_MouseOut ==
    /\ button' = [button EXCEPT !.hovered = FALSE]
    /\ renderer' = Button_Refresh(button', renderer)
    /\ btnCalls' = <<>>
    /\ UNCHANGED <<menuVars, driverVars, posCalls, animsCreated, barVars, theme, cacheVars>>

\* Button.SetIcon
SetIcon(icon) ==
    /\ button' = [button EXCEPT !.Icon = icon]
    /\ renderer' = Button_Refresh(button', renderer)
    /\ btnCalls' = <<>>
    /\ UNCHANGED <<menuVars, driverVars, posCalls, animsCreated, barVars, theme, cacheVars>>

\* Button.SetText
SetText(text) ==
    /\ button' = [button EXCEPT !.Text = text]
    /\ renderer' = Button_Refresh(button', renderer)
    /\ btnCalls' = <<>>
    /\ UNCHANGED <<menuVars, driverVars, posCalls, animsCreated, barVars, theme, cacheVars>>

\* DisableableWidget.Disable and Enable
SetDisabled(d) ==
    /\ button' = [button EXCEPT !.disabled = d]
    /\ renderer' = Button_Refresh(button', renderer)
    /\ btnCalls' = <<>>
    /\ UNCHANGED <<menuVars, driverVars, posCalls, animsCreated, barVars, theme, cacheVars>>

\* Button.Tapped that does not look at Disabled()
Button_Tapped_IgnoresDisabled ==
    /\ LET bt == tapAnimation([b |-> button, trace |-> <<"Tapped">>])
       IN  /\ button' = bt.b
           /\ renderer' = Button_Refresh(bt.b, renderer)
           /\ btnCalls' = IF button.OnTapped
                          THEN Append(bt.trace, "OnTapped")
                          ELSE bt.trace
           /\ animsCreated' = animsCreated + Created(bt.trace)
           /\ popup' = IF button.OnTapped THEN OnTapped(btnGeom, popup) ELSE popup
    /\ UNCHANGED <<menuVars, driverVars, posCalls, menuBar, btnGeom, theme, cacheVars>>

\* Button.Tapped that returns with tapAnimation when there is no tap background
Button_Tapped_NeedsTapBG ==
    /\ IF Disabled(button) \/ ~button.tapBG
       THEN /\ btnCalls' = <<"Tapped">>
            /\ UNCHANGED <<button, renderer, animsCreated, popup>>
       ELSE LET bt == tapAnimation([b |-> button, trace |-> <<"Tapped">>])
            IN  /\ button' = bt.b
                /\ renderer' = Button_Refresh(bt.b, renderer)
                /\ btnCalls' = IF button.OnTapped
                               THEN Append(bt.trace, "OnTapped")
                               ELSE bt.trace
                /\ animsCreated' = animsCreated + Created(bt.trace)
                /\ popup' = IF button.OnTapped THEN OnTapped(btnGeom, popup) ELSE popup
    /\ UNCHANGED <<menuVars, driverVars, posCalls, menuBar, btnGeom, theme, cacheVars>>

\* Button.Tapped
Button_Tapped ==
    /\ IF Disabled(button)
       THEN /\ btnCalls' = <<"Tapped">>
            /\ UNCHANGED <<button, renderer, animsCreated, popup>>
       ELSE LET bt == tapAnimation([b |-> button, trace |-> <<"Tapped">>])
            IN  /\ button' = bt.b
                /\ renderer' = Button_Refresh(bt.b, renderer)
                /\ btnCalls' = IF button.OnTapped
                               THEN Append(bt.trace, "OnTapped")
                               ELSE bt.trace
                /\ animsCreated' = animsCreated + Created(bt.trace)
                /\ popup' = IF button.OnTapped THEN OnTapped(btnGeom, popup) ELSE popup
    /\ UNCHANGED <<menuVars, driverVars, posCalls, menuBar, btnGeom, theme, cacheVars>>

\* the tap animation runs to its end
AnimationEnds ==
    /\ button.tapAnim = "running"
    /\ button' = [button EXCEPT !.tapAnim = "stopped"]
    /\ btnCalls' = <<>>
    /\ UNCHANGED <<renderer, menuVars, driverVars, posCalls, animsCreated, barVars, theme,
                   cacheVars>>

\* the button while a specification is about the menus
BtnIdle ==
    /\ button = NewButton(1, FALSE, FALSE, MediumImportance)
    /\ renderer = NoRenderer
    /\ btnCalls = <<>>
    /\ animsCreated = 0
    /\ BarIdle
    /\ theme = DefaultTheme
    /\ CacheIdle

\* the menu specification: a menu shown in a window, nothing rendered yet
Init ==
    /\ MenuInit
    /\ canvas = MenuCanvas
    /\ absPos = MenuAbsPos
    /\ posCalls = 0
    /\ BtnIdle

Next ==
    \/ \E i \in Items : CreateRenderer(i)
    \/ \E i \in Items : MouseIn(i)
    \/ \E i \in Items : MouseOut(i)
    \/ \E i \in ResizedItems, size \in ItemSizes : Resize(i, size)
    \/ \E i \in Items : Tapped(i)

Spec == Init /\ [][Next]_vars

(***************************************************************************)
(* SpecPos: updateChildPosition of item a, whose submenu A exists, for     *)
(* every item width, item position, submenu size and canvas in the bounds. *)
(***************************************************************************)
\* largest coordinate and extent of the geometry SpecPos draws
MaxCoord == 3

\* how many direct calls of updateChildPosition SpecPos makes
MaxPosCalls == 2

Coords == 0..MaxCoord

PosItem == "a"

PosChild == "A"

PosSizes == {[Width |-> w, Height |-> h] : w \in Coords, h \in Coords}

PosInit ==
    /\ child = [i \in Items |-> IF i = PosItem THEN PosChild ELSE NoMenu]
    /\ hovered = [i \in Items |-> FALSE]
    /\ \E w \in Coords :
          itemSize = [i \in Items |-> IF i = PosItem
                                      THEN [Width |-> w, Height |-> 2]
                                      ELSE ZeroSize]
    /\ activeChild = [m \in Menus |-> NoMenu]
    /\ visible = [m \in Menus |-> m = Root]
    /\ \E sz \in PosSizes :
          menuSize = [m \in Menus |-> IF m = PosChild THEN sz ELSE ZeroSize]
    /\ menuPos = [m \in Menus |-> ZeroPos]
    /\ dismissAction = [m \in Menus |-> IF m = PosChild THEN Root ELSE NoMenu]
    /\ mobile = FALSE
    /\ calls = <<>>
    /\ canvas \in PosSizes \cup {NoCanvas}
    /\ \E x \in Coords, y \in Coords :
          absPos = [i \in Items |-> IF i = PosItem
                                    THEN [X |-> x, Y |-> y]
                                    ELSE ZeroPos]
    /\ posCalls = 0
    /\ BtnIdle

\* a direct call of menuItem.updateChildPosition
UpdateChildPosition(i) ==
    /\ child[i] # NoMenu
    /\ posCalls < MaxPosCalls
    /\ Commit(updateChildPosition(MenuState, i, itemSize[i]))
    /\ posCalls' = posCalls + 1
    /\ UNCHANGED <<child, hovered, itemSize, dismissAction, mobile, driverVars, widgetVars>>

NextPos == UpdateChildPosition(PosItem)

SpecPos == PosInit /\ [][NextPos]_vars

(***************************************************************************)
(* SpecBtn: one button, built by NewButton, then rendered, hovered,        *)
(* tapped, relabelled and disabled in any order, under a theme whose text  *)
(* is lower or higher than its inline icons.                               *)
(***************************************************************************)
BtnThemes == {[DefaultTheme EXCEPT !.TextSize = t] : t \in {1, 3}}

InitBtn ==
    /\ MenuInit
    /\ mobile = FALSE
    /\ canvas = NoCanvas
    /\ absPos = MenuAbsPos
    /\ posCalls = 0
    /\ BtnInit
    /\ BarIdle
    /\ theme \in BtnThemes
    /\ CacheIdle

NextBtn ==
    \/ Button_CreateRenderer
    \/ Button_MouseIn
    \/ Button_MouseOut
    \/ \E icon \in BOOLEAN : SetIcon(icon)
    \/ \E text \in 0..MaxText : SetText(text)
    \/ \E d \in BOOLEAN : SetDisabled(d)
    \/ Button_Tapped
    \/ AnimationEnds

SpecBtn == InitBtn /\ [][NextBtn]_vars

(***************************************************************************)
(* SpecBar: the button menuBarAction.ToolbarObject makes for one menu of a *)
(* menu bar, moved and resized by the bar's layout, rendered, hovered,     *)
(* disabled and tapped in any order.                                       *)
(***************************************************************************)
\* where the bar's layout puts the button
BarPositions == {[X |-> x, Y |-> y] : x \in {0, 10}, y \in {0, 20}}

\* the sizes the bar's layout gives the button
BarSizes == {[Width |-> 40, Height |-> h] : h \in {0, 30}}

\* menuBarAction.ToolbarObject: NewButton(m.Label, nil), then the closure as
\* OnTapped
ToolbarObject ==
    /\ button = [NewButton(1, FALSE, FALSE, MediumImportance) EXCEPT !.OnTapped = TRUE]
    /\ menuBar = TRUE
    /\ btnGeom = [Position |-> ZeroPos, Size |-> ZeroSize]
    /\ popup = NoPopUp

\* the layout moves the button
Button_Move(pos) ==
    /\ btnGeom' = [btnGeom EXCEPT !.Position = pos]
    /\ btnCalls' = <<>>
    /\ UNCHANGED <<button, renderer, animsCreated, menuBar, popup, menuVars, driverVars,
                   posCalls, theme, cacheVars>>

\* the layout resizes the button
Button_Resize(size) ==
    /\ btnGeom' = [btnGeom EXCEPT !.Size = size]
    /\ btnCalls' = <<>>
    /\ UNCHANGED <<button, renderer, animsCreated, menuBar, popup, menuVars, driverVars,
                   posCalls, theme, cacheVars>>

InitBar ==
    /\ MenuInit
    /\ mobile = FALSE
    /\ canvas = NoCanvas
    /\ absPos = MenuAbsPos
    /\ posCalls = 0
    /\ ToolbarObject
    /\ renderer = NoRenderer
    /\ btnCalls = <<>>
    /\ animsCreated = 0
    /\ theme = DefaultTheme
    /\ CacheIdle

NextBar ==
    \/ \E pos \in BarPositions : Button_Move(pos)
    \/ \E size \in BarSizes : Button_Resize(size)
    \/ Button_CreateRenderer
    \/ \E d \in BOOLEAN : SetDisabled(d)
    \/ Button_Tapped
    \/ AnimationEnds

SpecBar == InitBar /\ [][NextBar]_vars

(***************************************************************************)
(* SpecCache: the renderer of one menu item, with or without the submenu   *)
(* icon, asked for its minimum size and laid out in any order while the    *)
(* theme changes.                                                          *)
(***************************************************************************)
\* the themes: two text sizes, two inline icon sizes, no padding or some
CacheThemes ==
    {[TextSize |-> t, IconInlineSize |-> s, Padding |-> q] :
        t \in {1, 2}, s \in {2, 3}, q \in {0, Padding}}

\* length of the item's label, in characters
ItemLabelLen == 2

\* menuItemRenderer.itemPadding
itemPadding(th) == [Width |-> th.Padding * 4, Height |-> th.Padding * 2]

\* menuItemRenderer.minSizeUnchanged
minSizeUnchanged(r, th) ==
    /\ ~IsZero(r.minSize)
    /\ r.textSize = th.TextSize
    /\ (~r.hasIcon \/ r.iconWidth = th.IconInlineSize)
    /\ r.lastThemePadding = th.Padding

\* the size menuItemRenderer.MinSize computes when it does not return the
\* stored one
computedMinSize(r, th) ==
    LET textSize == TextMinSize(ItemLabelLen, r.textSize)
        pad == itemPadding(th)
    IN  [Width |-> textSize.Width + pad.Width
                     + (IF r.hasIcon THEN th.IconInlineSize ELSE 0),
         Height |-> textSize.Height + pad.Height]

\* menuItem.CreateRenderer, as far as the renderer's own fields go: a text at
\* the theme's text size, an icon (not sized yet) when the item has a submenu
CacheInit ==
    /\ theme \in CacheThemes
    /\ \E hasIcon \in BOOLEAN :
          mir = [hasIcon |-> hasIcon, textSize |-> theme.TextSize, iconWidth |-> 0,
                 lastThemePadding |-> 0, minSize |-> ZeroSize]
    /\ mirCalls = <<>>
    /\ computedUnder = theme

\* menuItemRenderer.MinSize
MenuItemRenderer_MinSize ==
    /\ IF minSizeUnchanged(mir, theme)
       THEN /\ mirCalls' = <<"MinSize", "stored">>
            /\ UNCHANGED <<mir, computedUnder>>
       ELSE /\ mir' = [mir EXCEPT !.minSize = computedMinSize(mir, theme)]
            /\ mirCalls' = <<"MinSize", "computed">>
            /\ computedUnder' = theme
    /\ UNCHANGED <<menuVars, driverVars, posCalls, btnVars, barVars, theme>>

\* menuItemRenderer.Layout
MenuItemRenderer_Layout ==
    /\ mir' = [mir EXCEPT !.textSize = theme.TextSize,
                          !.iconWidth = IF mir.hasIcon THEN theme.IconInlineSize ELSE @]
    /\ mirCalls' = <<>>
    /\ UNCHANGED <<computedUnder, menuVars, driverVars, posCalls, btnVars, barVars, theme>>

\* the application's theme is replaced
ThemeChanged(th) ==
    /\ th # theme
    /\ theme' = th
    /\ mirCalls' = <<>>
    /\ UNCHANGED <<mir, computedUnder, menuVars, driverVars, posCalls, btnVars, barVars>>

InitCache ==
    /\ MenuInit
    /\ mobile = FALSE
    /\ canvas = NoCanvas
    /\ absPos = MenuAbsPos
    /\ posCalls = 0
    /\ button = NewButton(1, FALSE, FALSE, MediumImportance)
    /\ renderer = NoRenderer
    /\ btnCalls = <<>>
    /\ animsCreated = 0
    /\ BarIdle
    /\ CacheInit

NextCache ==
    \/ MenuItemRenderer_MinSize
    \/ MenuItemRenderer_Layout
    \/ \E th \in CacheThemes : ThemeChanged(th)

SpecCache == InitCache /\ [][NextCache]_vars

(***************************************************************************)
(* Properties of the menu specification.                                   *)
(***************************************************************************)

\* the items of menu m whose submenu is visible
VisibleChildren(m) ==
    {i \in Items : Parent(i) = m /\ child[i] # NoMenu /\ visible[child[i]]}

\* the items of i's menu other than i that have a submenu
SubmenuSiblings(i) ==
    {j \in Items \ {i} : Parent(j) = Parent(i) /\ child[j] # NoMenu}

\* the item a submenu belongs to
Owner(m) == CHOOSE i \in Items : ChildMenu(i) = m

RECURSIVE MenuChain(_)
\* menu m and every menu above it, up to the root
MenuChain(m) ==
    IF m = Root THEN {Root} ELSE {m} \cup MenuChain(Parent(Owner(m)))

TapCall(i) == [call |-> "Tapped", of |-> i]

ActionCall(i) == [call |-> "Action", of |-> i]

DismissCall(m) == [call |-> "Dismiss", of |-> m]

\* C1: in every reachable state each menu has at most one item whose submenu
\* is visible, and a visible submenu is its menu's activeChild; so once one
\* item's submenu is activated no sibling submenu is still open.
C1_AtMostOneVisibleChild ==
    \A m \in Menus :
        /\ Cardinality(VisibleChildren(m)) <= 1
        /\ \A i \in VisibleChildren(m) : activeChild[m] = child[i]

\* C1 witness: submenu A is open after submenu B had been opened and closed
C1_Witness ==
    /\ activeChild["R"] = "A"
    /\ visible["A"]
    /\ menuSize["B"] = MenuMinSize("B")
    /\ ~visible["B"]

\* C2: a MouseIn step on item i leaves i hovered, leaves no sibling's submenu
\* visible or active, and, when i has a submenu, leaves that submenu the
\* parent's activeChild and visible (whether or not it was active before).
C2_MouseInActivates ==
    [][\A i \in Items :
          MouseIn(i) =>
            /\ hovered'[i]
            /\ \A j \in SubmenuSiblings(i) :
                  ~visible'[child[j]] /\ activeChild'[Parent(i)] # child[j]
            /\ child[i] # NoMenu =>
                  activeChild'[Parent(i)] = child[i] /\ visible'[child[i]]]_vars

\* C2 witness: on a desktop, item a is hovered with its submenu A open, and
\* the sibling submenu B, opened earlier, is closed
C2_Witness ==
    /\ ~mobile
    /\ hovered["a"]
    /\ activeChild["R"] = "A"
    /\ visible["A"]
    /\ menuSize["B"] = MenuMinSize("B")
    /\ ~visible["B"]
    /\ activeChild["A"] = NoMenu

\* C3: a MouseOut step on item i clears i's hovered flag and changes nothing
\* else: activeChild, the visibility, size and position of every submenu and
\* the other items' hovered flags stay as they were.
C3_MouseOutOnlyClearsHover ==
    [][\A i \in Items :
          MouseOut(i) =>
            /\ ~hovered'[i]
            /\ \A j \in Items \ {i} : hovered'[j] = hovered[j]
            /\ UNCHANGED <<activeChild, visible, menuSize, menuPos, child,
                           itemSize, dismissAction>>]_vars

\* C3 witness: on a desktop, submenu A (opened by hovering a) is still open
\* although a is no longer hovered
C3_Witness ==
    /\ ~mobile
    /\ ~hovered["a"]
    /\ calls = <<>>
    /\ activeChild["R"] = "A"
    /\ visible["A"]

\* C6: after a tap on an item with an action, the tap has invoked that action
\* exactly once, before any Dismiss, and has then called Dismiss on the item's
\* menu and on every menu above it up to the root; every submenu's
\* DismissAction is the Dismiss of the menu of the item that owns it.
C6_TapActsThenDismissesChain ==
    /\ \A i \in Items : child[i] # NoMenu => dismissAction[child[i]] = Parent(i)
    /\ (calls # <<>> /\ HasAction(calls[1].of)) =>
          LET i == calls[1].of
          IN  /\ Len(calls) >= 2
              /\ calls[2] = ActionCall(i)
              /\ \A k \in DOMAIN calls : calls[k].call = "Action" => k = 2
              /\ \A k \in DOMAIN calls : calls[k].call = "Dismiss" => k > 2
              /\ \A m \in MenuChain(Parent(i)) :
                    \E k \in DOMAIN calls : calls[k] = DismissCall(m)

\* C6 witness: the tap on aa1, three menus deep, has just been handled
C6_Witness ==
    /\ calls # <<>>
    /\ calls[1] = TapCall("aa1")
    /\ Len(calls) = 5

\* C7 as claimed: on a touch device a tap on an item with a submenu and no
\* action never dismisses and toggles the submenu: inactive becomes active and
\* visible, active becomes inactive and hidden.
C7_TapToggles ==
    [][\A i \in Items :
          (mobile /\ ~HasAction(i) /\ child[i] # NoMenu /\ Tapped(i)) =>
            /\ \A k \in DOMAIN calls' : calls'[k].call # "Dismiss"
            /\ IF activeChild[Parent(i)] = child[i]
               THEN activeChild'[Parent(i)] # child[i] /\ ~visible'[child[i]]
               ELSE activeChild'[Parent(i)] = child[i] /\ visible'[child[i]]]_vars

\* C7 amended: on a touch device a tap on an item with a submenu and no
\* action never dismisses and leaves the submenu the active, visible child,
\* whether it was inactive or already active before (an already active
\* submenu stays open and visible; only its own open child is closed).
C7_TapActivates ==
    [][\A i \in Items :
          (mobile /\ ~HasAction(i) /\ child[i] # NoMenu /\ Tapped(i)) =>
            /\ \A k \in DOMAIN calls' : calls'[k].call # "Dismiss"
            /\ activeChild'[Parent(i)] = child[i]
            /\ visible'[child[i]]
            /\ activeChild'[child[i]] = NoMenu]_vars

\* C7 witness: on a touch device the tap on a has just been handled and
\* submenu A is open
C7_Witness ==
    /\ mobile
    /\ calls = <<TapCall("a")>>
    /\ activeChild["R"] = "A"
    /\ visible["A"]

PosW == canvas.Width

PosH == canvas.Height

PosAbsX == absPos[PosItem].X

PosAbsY == absPos[PosItem].Y

PosItemW == itemSize[PosItem].Width

\* absolute x of the item's right edge
PosRightEdge == PosAbsX + PosItemW

PosCw == menuSize[PosChild].Width

PosCh == menuSize[PosChild].Height

\* the submenu's position, relative to the item
PosX == menuPos[PosChild].X

PosY == menuPos[PosChild].Y

Positioned == posCalls > 0 /\ canvas # NoCanvas

\* C4 as claimed, with x the absolute right edge of the item: x+Cw <= W puts
\* the submenu immediately right of the item; x+Cw > W and x-Cw >= 0 puts it
\* to the left of the item; otherwise its absolute right edge is W.
C4_FlipByRightEdge ==
    Positioned =>
        /\ PosRightEdge + PosCw <= PosW => PosX = PosItemW
        /\ (PosRightEdge + PosCw > PosW /\ PosRightEdge - PosCw >= 0) =>
              PosX = -PosCw
        /\ (PosRightEdge + PosCw > PosW /\ PosRightEdge - PosCw < 0) =>
              PosAbsX + PosX + PosCw = PosW

\* C4 amended: x+Cw <= W puts the submenu immediately right of the item;
\* x+Cw > W with room for the submenu left of the item's LEFT edge (absolute
\* left edge - Cw >= 0) puts it to the left of the item; x+Cw > W without that
\* room makes its absolute right edge W.
C4_FlipByLeftEdge ==
    Positioned =>
        /\ PosRightEdge + PosCw <= PosW => PosX = PosItemW
        /\ (PosRightEdge + PosCw > PosW /\ PosAbsX - PosCw >= 0) =>
              PosX = -PosCw
        /\ (PosRightEdge + PosCw > PosW /\ PosAbsX - PosCw < 0) =>
              PosAbsX + PosX + PosCw = PosW

\* C4 witness: a positioned submenu that overflowed on the right and was
\* flipped to the left of an item of non-zero width
C4_Witness ==
    /\ Positioned
    /\ PosItemW > 0
    /\ PosCw > 0
    /\ PosRightEdge + PosCw > PosW
    /\ PosAbsX - PosCw >= 0
    /\ PosX = -PosCw

\* C5: the vertical offset is -Padding unless the submenu's bottom edge at
\* that offset lies below the canvas; then the offset is -Padding minus the
\* overflow, which puts the submenu's absolute bottom edge on the canvas
\* bottom. Without a canvas the offset is -Padding.
C5_VerticalShift ==
    posCalls > 0 =>
        IF canvas # NoCanvas /\ PosAbsY - Padding + PosCh > PosH
        THEN /\ PosY = -Padding - (PosAbsY - Padding + PosCh - PosH)
             /\ PosAbsY + PosY + PosCh = PosH
        ELSE PosY = -Padding

\* C5 witness: a positioned submenu that overflowed the bottom and was
\* shifted up from the default offset
C5_Witness ==
    /\ Positioned
    /\ PosAbsY - Padding + PosCh > PosH
    /\ PosY # -Padding
    /\ PosAbsY + PosY + PosCh = PosH

(***************************************************************************)
(* Properties of the button (SpecBtn).                                     *)
(***************************************************************************)

\* C9: the background colour follows the precedence disabled > high
\* importance > hovered > default: disabled gives the disabled colour whatever
\* the importance and hover state, enabled and high importance gives the
\* primary colour whether hovered or not, enabled and not high gives the hover
\* colour iff hovered and the button colour otherwise; a rendered button's
\* background has that colour.
C9_ColourPrecedence ==
    LET expected ==
            CASE button.disabled -> "DisabledButtonColor"
              [] ~button.disabled /\ button.Importance = HighImportance ->
                    "PrimaryColor"
              [] ~button.disabled /\ button.Importance # HighImportance
                 /\ button.hovered -> "HoverColor"
              [] ~button.disabled /\ button.Importance # HighImportance
                 /\ ~button.hovered -> "ButtonColor"
    IN  /\ buttonColor(button) = expected
        /\ renderer # NoRenderer => renderer.background = expected

\* C9 witness: a rendered, enabled, hovered button of high importance, shown
\* in the primary colour
C9_Witness ==
    /\ renderer # NoRenderer
    /\ ~button.disabled
    /\ button.hovered
    /\ button.Importance = HighImportance
    /\ renderer.background = "PrimaryColor"

\* C10: a tap on a disabled button changes no field of the button (so it
\* neither creates, stops nor starts the tap animation), leaves the renderer
\* alone and does not call OnTapped.
C10_DisabledTapIsNoOp ==
    [][(button.disabled /\ Button_Tapped) =>
          /\ button' = button
          /\ renderer' = renderer
          /\ btnCalls' = <<"Tapped">>]_vars

\* C10 witness: a disabled button with an OnTapped callback has just been
\* tapped while its tap animation was running
C10_Witness ==
    /\ button.disabled
    /\ button.OnTapped
    /\ button.tapAnim = "running"
    /\ btnCalls = <<"Tapped">>

\* how often the trace of a tap holds the call
Count(trace, call) == Cardinality({n \in DOMAIN trace : trace[n] = call})

\* call a comes before call b in the trace of a tap
Before(trace, a, b) ==
    \E n \in DOMAIN trace, m \in DOMAIN trace :
        n < m /\ trace[n] = a /\ trace[m] = b

\* C11: a tap on an enabled button that has an OnTapped callback calls the
\* callback exactly once, whatever the state of the tap animation; a button
\* that was never rendered (no tap background) starts no animation, a rendered
\* one has its animation started before the callback is called.
C11_TapCallsBackOnce ==
    (btnCalls # <<>> /\ ~Disabled(button) /\ button.OnTapped) =>
        /\ Count(btnCalls, "OnTapped") = 1
        /\ btnCalls[Len(btnCalls)] = "OnTapped"
        /\ button.tapBG => /\ Count(btnCalls, "Start") = 1
                           /\ Before(btnCalls, "Start", "OnTapped")
        /\ ~button.tapBG => btnCalls = <<"Tapped", "OnTapped">>

\* a rendered button whose animation existed was tapped and called back
C11_Witness ==
    /\ btnCalls = <<"Tapped", "Stop", "Start", "OnTapped">>
    /\ button.tapAnim = "running"

\* a button that was never rendered was tapped and called back
C11_WitnessUnrendered ==
    /\ btnCalls = <<"Tapped", "OnTapped">>
    /\ renderer = NoRenderer

\* C12: a button makes at most one tap animation in its lifetime (so at most
\* one is running), it has one exactly when it made one, and a tap never
\* starts an animation it has not just made or just stopped: a tap on a
\* rendered, enabled button whose animation is running stops it, then starts.
C12_OneAnimationStoppedBeforeStart ==
    /\ animsCreated <= 1
    /\ (button.tapAnim = "nil") = (animsCreated = 0)
    /\ \A n \in DOMAIN btnCalls :
          btnCalls[n] = "Start" =>
              /\ n > 1
              /\ btnCalls[n - 1] = (IF Count(btnCalls, "NewAnimation") = 1
                                    THEN "NewAnimation" ELSE "Stop")
    /\ Count(btnCalls, "NewAnimation") = 1 => Count(btnCalls, "Stop") = 0

\* the button was tapped a second time: the animation it had was stopped and
\* started again, and no second one was made
C12_Witness ==
    /\ animsCreated = 1
    /\ Before(btnCalls, "Stop", "Start")
    /\ button.tapAnim = "running"

\* C13: when a menu bar's button is tapped and calls back, the pop-up menu is
\* opened at (button.x, button.y + button.height), with the position and the
\* size the button has at the tap, not those it had when it was built; a
\* button at (10, 20) of height 30 opens its menu at (10, 50).
C13_PopUpBelowButton ==
    (menuBar /\ Count(btnCalls, "OnTapped") = 1) =>
        /\ popup = [X |-> btnGeom.Position.X,
                    Y |-> btnGeom.Position.Y + btnGeom.Size.Height]
        /\ (btnGeom.Position = [X |-> 10, Y |-> 20] /\ btnGeom.Size.Height = 30)
               => popup = [X |-> 10, Y |-> 50]

\* the button, laid out at (10, 20) with height 30 after it was built, was
\* tapped and opened the menu at (10, 50)
C13_Witness ==
    /\ menuBar
    /\ Count(btnCalls, "OnTapped") = 1
    /\ btnGeom.Position = [X |-> 10, Y |-> 20]
    /\ btnGeom.Size.Height = 30
    /\ popup = [X |-> 10, Y |-> 50]

\* C14: updateChildPosition is idempotent: a call that follows another, with
\* the item's size and absolute position, the submenu's size and the canvas
\* size unchanged in between, leaves the submenu where the first call put it.
C14_UpdateChildPositionIdempotent ==
    [][(UpdateChildPosition(PosItem) /\ posCalls >= 1) => menuPos' = menuPos]_vars

\* the submenu was positioned twice, away from the item's own origin
C14_Witness ==
    /\ posCalls = 2
    /\ canvas # NoCanvas
    /\ PosX # 0
    /\ PosY # 0

\* C20: for an item on a canvas whose left edge lies within the canvas
\* (0 <= x <= W), updateChildPosition leaves the submenu's absolute right edge
\* at or left of the canvas width and its absolute bottom edge at or above
\* the canvas height, for every item width, item position and submenu size;
\* a submenu flipped to the left has its absolute left edge at 0 or beyond.
C20_SubmenuWithinCanvas ==
    (Positioned /\ 0 <= PosAbsX /\ PosAbsX <= PosW) =>
        /\ PosAbsX + PosX + PosCw <= PosW
        /\ PosAbsY + PosY + PosCh <= PosH
        /\ (PosRightEdge + PosCw > PosW /\ PosAbsX - PosCw >= 0)
               => (PosX = -PosCw /\ PosAbsX + PosX >= 0)

\* a submenu that fits on neither side of the item and not below its top was
\* positioned: its right edge is at the canvas width, its bottom edge at the
\* canvas height
C20_Witness ==
    /\ Positioned
    /\ PosAbsX <= PosW
    /\ PosRightEdge + PosCw > PosW
    /\ PosAbsX - PosCw < 0
    /\ PosAbsY + PosCh - Padding > PosH
    /\ PosAbsX + PosX + PosCw = PosW
    /\ PosAbsY + PosY + PosCh = PosH

\* a submenu that does not fit on the right but does on the left was flipped
C20_WitnessFlipped ==
    /\ Positioned
    /\ PosAbsX <= PosW
    /\ PosRightEdge + PosCw > PosW
    /\ PosCw > 0
    /\ PosX = -PosCw

\* the submenu of item i has the size and the position the claim gives it
SubmenuPlaced(i) ==
    LET c == child[i]
    IN  /\ menuSize[c] \in {ZeroSize, MenuMinSize(c)}
        /\ IsZero(menuSize[c]) => ~visible[c]
        /\ visible[c] =>
              /\ menuSize[c] = MenuMinSize(c)
              /\ ~IsZero(menuSize[c])
              /\ menuPos[c] = childPosition(itemSize[i], canvas, absPos[i],
                                            MenuMinSize(c))

\* C18: a submenu has the zero size until its first activation gives it its
\* minimum size, positions it and only then shows it, and every Resize of an
\* item that has a submenu positions the submenu again: whenever a submenu is
\* visible it has its (non-zero) minimum size and the position
\* updateChildPosition computes from that size and the item's current size.
C18_VisibleSubmenuSizedAndPositioned ==
    /\ [](\A i \in Items : child[i] # NoMenu => SubmenuPlaced(i))
    /\ [][\A i \in ResizedItems, size \in ItemSizes :
            (Resize(i, size) /\ child[i] # NoMenu) =>
                menuPos'[child[i]] = childPosition(size, canvas, absPos[i],
                                                  menuSize[child[i]])]_vars

\* the submenu of a1 is visible, moved left to end at the canvas's right edge:
\* placed for its minimum size and the width a1 was resized to
C18_Witness ==
    /\ child["a1"] = "AA"
    /\ visible["AA"]
    /\ itemSize["a1"].Width = 3
    /\ menuSize["AA"] = MenuMinSize("AA")
    /\ menuPos["AA"].X = MenuCanvas.Width - MenuAbsPos["a1"].X - MenuMinSize("AA").Width

\* the minimum size of the button's renderer
ButtonMinSize == buttonRenderer_MinSize(button, renderer, theme)

Rendered == renderer # NoRenderer

\* C15: the minimum size of a button's renderer is the same before and after
\* MouseIn and MouseOut, and SetText to a text at least as long as the current
\* one (from the empty text to a non-empty one included) makes neither its
\* width nor its height smaller, the icon, the importance and the theme being
\* those of the step.
C15_MinSizeMonotoneInText ==
    [][Rendered =>
         /\ (Button_MouseIn \/ Button_MouseOut) => ButtonMinSize' = ButtonMinSize
         /\ \A text \in 0..MaxText :
               (SetText(text) /\ text >= button.Text) =>
                   /\ ButtonMinSize'.Width >= ButtonMinSize.Width
                   /\ ButtonMinSize'.Height >= ButtonMinSize.Height]_vars

\* a rendered button with an icon, hovered, whose text was set to the longest
C15_Witness ==
    /\ Rendered
    /\ button.hovered
    /\ button.Icon
    /\ button.Text = MaxText
    /\ renderer.labelText = MaxText
    /\ ButtonMinSize.Width = MaxText * theme.TextSize + theme.Padding
                                + theme.IconInlineSize + 6 * theme.Padding

\* the button is rendered with its icon and no text
IconOnly == Rendered /\ button.Text = 0 /\ button.Icon /\ renderer.icon = "shown"

\* C16 as claimed: a rendered button with the empty text and an icon has the
\* icon's inline size plus the icon-only padding as its minimum width and
\* height, whatever the height of the label's text.
C16_IconOnlyMinSizeIgnoresText ==
    IconOnly =>
        ButtonMinSize = [Width |-> theme.IconInlineSize + padding(button, theme).Width,
                         Height |-> theme.IconInlineSize + padding(button, theme).Height]

\* C16: a rendered button with the empty text and an icon has the icon's
\* inline size plus the icon-only padding as its minimum width, and the larger
\* of the icon's inline size and the label's text height plus the icon-only
\* padding as its minimum height; with a text no higher than the icon and an
\* importance other than low, both are the icon's inline size plus 4 paddings.
C16_IconOnlyMinSize ==
    IconOnly =>
        /\ ButtonMinSize.Width = theme.IconInlineSize + padding(button, theme).Width
        /\ ButtonMinSize.Height =
              Max(theme.TextSize, theme.IconInlineSize) + padding(button, theme).Height
        /\ (theme.TextSize <= theme.IconInlineSize
               /\ button.Importance # LowImportance) =>
              ButtonMinSize = [Width |-> theme.IconInlineSize + 4 * theme.Padding,
                               Height |-> theme.IconInlineSize + 4 * theme.Padding]

\* an icon-only button under a theme whose text is higher than its icons
C16_Witness ==
    /\ IconOnly
    /\ theme.TextSize > theme.IconInlineSize
    /\ ButtonMinSize.Height > ButtonMinSize.Width

\* C19 as claimed: the minimum size and the layout of a rendered button count
\* the icon exactly when the button's Icon is not nil, and without an Icon the
\* minimum width is that of a button that never had one.
C19_IconCountedIffSet ==
    Rendered =>
        /\ HasIcon(renderer) = button.Icon
        /\ ~button.Icon =>
              ButtonMinSize.Width =
                  buttonRenderer_MinSize(button, [renderer EXCEPT !.icon = "nil"],
                                         theme).Width

\* C17 as claimed: once the renderer has computed and stored a non-zero
\* minimum size, a MinSize call under the theme (text size, inline icon size,
\* padding) of that computation returns the stored size without computing,
\* and a MinSize call under a theme that differs in one of the three computes.
C17_CachedUntilThemeChanges ==
    [][(MenuItemRenderer_MinSize /\ ~IsZero(mir.minSize)) =>
          IF theme = computedUnder
          THEN mirCalls' = <<"MinSize", "stored">> /\ mir'.minSize = mir.minSize
          ELSE mirCalls' = <<"MinSize", "computed">>]_vars
====
